---- MODULE Spec2Model ----
(***************************************************************************)
(* Model of the habititcan integrations: the Habitica story-point          *)
(* breakdown, its batch consumer and the scoring callback                  *)
(* (src/habitica.py), the Trello polling monitors with their card differ   *)
(* (src/trello.py, src/trello_board.py), the stack server                  *)
(* (src/stack_server.py) and play_sound (src/ubuntu_desktop.py).           *)
(***************************************************************************)
EXTENDS Integers, Sequences, FiniteSets, TLC

(***************************************************************************)
(* ---------------- Arbitrary-precision naturals ------------------------- *)
(* Python floats are IEEE-754 doubles with a 53-bit significand.  The      *)
(* arithmetic of break_down_difficulty is modelled bit-exactly, so naturals *)
(* wider than TLC's integers     are kept as little-endian sequences   *)
(* of limbs in base 2^15, without leading (most significant) zero limbs.   *)
(***************************************************************************)
LimbBits == 15

Base == 2^LimbBits

Max(S) == CHOOSE m \in S : \A j \in S : j <= m

Min(a, b) == IF a <= b THEN a ELSE b

\* drop the most significant zero limbs
Norm(x) ==
    LET nz == {i \in 1..Len(x) : x[i] # 0}
    IN  IF nz = {} THEN <<>> ELSE SubSeq(x, 1, Max(nz))

\* a natural below Base^3 as limbs
BigFromInt(n) == Norm(<<n % Base, (n \div Base) % Base, n \div (Base * Base)>>)

Limb(x, i) == IF i <= Len(x) THEN x[i] ELSE 0

\* the value of a natural of at most three limbs
BigToInt(x) == Limb(x, 1) + Base * Limb(x, 2) + Base * Base * Limb(x, 3)

\* -1, 0 or 1 as x is below, equal to or above y
BigCmp(x, y) ==
    IF Len(x) < Len(y) THEN -1
    ELSE IF Len(x) > Len(y) THEN 1
    ELSE LET diff == {i \in 1..Len(x) : x[i] # y[i]}
         IN  IF diff = {} THEN 0
             ELSE IF x[Max(diff)] < y[Max(diff)] THEN -1 ELSE 1

\* x + y: the carry into limb i is decided by the highest lower limb
\* whose sum is not Base - 1
BigAdd(x, y) ==
    LET n == (IF Len(x) > Len(y) THEN Len(x) ELSE Len(y)) + 1
        sum(i) == Limb(x, i) + Limb(y, i)
        carry(i) == LET gen == {j \in 1..(i - 1) : sum(j) # Base - 1}
                    IN  IF gen = {} THEN 0
                        ELSE IF sum(Max(gen)) >= Base THEN 1 ELSE 0
    IN  Norm([i \in 1..n |-> (sum(i) + carry(i)) % Base])

\* x - y for x >= y: the borrow into limb i is decided by the highest lower
\* limb where x and y differ
BigSub(x, y) ==
    LET borrow(i) == LET df == {j \in 1..(i - 1) : Limb(x, j) # Limb(y, j)}
                     IN  IF df = {} THEN 0
                         ELSE IF Limb(x, Max(df)) < Limb(y, Max(df)) THEN 1 ELSE 0
    IN  Norm([i \in 1..Len(x) |->
                 (Limb(x, i) - Limb(y, i) - borrow(i) + Base) % Base])

\* x * k for a small k (0 <= k < Base): low and high halves of the limb products
BigMulSmall(x, k) ==
    BigAdd(Norm([i \in 1..Len(x) |-> (x[i] * k) % Base]),
           Norm([i \in 1..(Len(x) + 1) |->
                    IF i = 1 THEN 0 ELSE (x[i - 1] * k) \div Base]))

Zeros(n) == [i \in 1..n |-> 0]

\* x * 2^t
BigShl(x, t) ==
    IF x = <<>> THEN <<>>
    ELSE Zeros(t \div LimbBits) \o BigMulSmall(x, 2^(t % LimbBits))

\* floor(x / 2^t)
BigShr(x, t) ==
    LET w == t \div LimbBits
        b == t % LimbBits
    IN  IF w >= Len(x) THEN <<>>
        ELSE Norm([i \in 1..(Len(x) - w) |->
                      (x[i + w] \div 2^b)
                      + (Limb(x, i + w + 1) % 2^b) * 2^(LimbBits - b)])

BigOne == <<1>>

BigOdd(x) == x # <<>> /\ x[1] % 2 = 1

(***************************************************************************)
(* ---------------- IEEE-754 double precision ---------------------------- *)
(* A double is [neg, m, e] with value (-1)^neg * m * 2^e, where m is a     *)
(* 53-bit significand (2^52 <= m < 2^53) or zero.  The magnitudes that     *)
(* occur are far from the subnormal and overflow ranges.                   *)
(***************************************************************************)
MantBits == 53

FlZero == [neg |-> FALSE, m |-> <<>>, e |-> 0]

\* F applied to the value of e: e is evaluated once, before F's body
Strict(e, F(_)) == CHOOSE r \in {F(v) : v \in {e}} : TRUE

\* the quotient digit floor(r / dsh) of schoolbook division, for r < Base * dsh
\* and a divisor whose top limb is at least Base / 2: the estimate from the
\* top limbs is at most 2 above the digit
QuotDigit(r, dsh) ==
    IF BigCmp(r, dsh) < 0 THEN 0
    ELSE LET L    == Len(dsh)
             rtop == Limb(r, L + 1) * Base + r[L]
             qhat == Min(rtop \div dsh[L], Base - 1)
         IN  CHOOSE dg \in (qhat - 2)..qhat :
                 /\ dg >= 0
                 /\ BigCmp(BigMulSmall(dsh, dg), r) <= 0
                 /\ BigCmp(BigMulSmall(dsh, dg + 1), r) > 0

\* schoolbook division of r by den, quotient limbs i..1 (quotient < Base^i)
RECURSIVE DivLimbs(_, _, _)
DivLimbs(r, den, i) ==
    IF i = 0 THEN [q |-> <<>>, r |-> r]
    ELSE Strict(Zeros(i - 1) \o den, LAMBDA dsh :
         Strict(QuotDigit(r, dsh), LAMBDA dig :
         Strict(BigSub(r, BigMulSmall(dsh, dig)), LAMBDA r2 :
         Strict(DivLimbs(r2, den, i - 1), LAMBDA rest :
             [q |-> rest.q \o <<dig>>, r |-> rest.r]))))

\* quotient and remainder of num by den, for a quotient below Base^QuotLimbs
QuotLimbs == (MantBits \div LimbBits) + 1

BigDivMod(num, den) ==
    Strict(DivLimbs(num, den, QuotLimbs), LAMBDA d : [q |-> Norm(d.q), r |-> d.r])

\* number of significant bits of a natural
BitLen(x) ==
    IF x = <<>> THEN 0
    ELSE LimbBits * (Len(x) - 1)
         + (CHOOSE k \in 1..LimbBits : 2^(k - 1) <= x[Len(x)] /\ x[Len(x)] < 2^k)

\* round-to-nearest, ties-to-even of the quotient d.q with remainder d.r of
\* a division by den, the quotient lying in [2^52, 2^53); value m * 2^e
FlRound(neg, d, den, e) ==
    LET half == BigCmp(BigMulSmall(d.r, 2), den)
        up   == half > 0 \/ (half = 0 /\ BigOdd(d.q))
    IN  Strict(IF up THEN BigAdd(d.q, BigOne) ELSE d.q, LAMBDA m :
            IF BigCmp(m, BigShl(BigOne, MantBits)) >= 0
            THEN [neg |-> neg, m |-> BigShr(m, 1), e |-> e + 1]
            ELSE [neg |-> neg, m |-> m, e |-> e])

\* the double nearest to n * 2^e / d, for operands scaled so that the
\* quotient lies in [2^51, 2^53) and the top limb of d is full
FlScaled(neg, n, d, e) ==
    IF BigCmp(n, BigShl(d, MantBits - 1)) < 0
    THEN Strict(BigMulSmall(n, 2), LAMBDA n2 :
         Strict(BigDivMod(n2, d), LAMBDA dv : FlRound(neg, dv, d, e - 1)))
    ELSE Strict(BigDivMod(n, d), LAMBDA dv : FlRound(neg, dv, d, e))

\* the double nearest to num * 2^e / den, ties to even (num, den naturals, den > 0)
Fl(neg, num, den, e) ==
    Strict(<<num, den>>, LAMBDA a :
        IF a[1] = <<>> \/ a[2] = <<>> THEN FlZero
        ELSE LET \* pad fills the top limb of the divisor (scales both sides)
                 pad == (LimbBits - (BitLen(a[2]) % LimbBits)) % LimbBits
                 \* s scales the quotient into [2^51, 2^53)
                 s   == (MantBits - 1) - (BitLen(a[1]) - BitLen(a[2]))
             IN  Strict(<<BigShl(a[1], pad + (IF s >= 0 THEN s ELSE 0)),
                          BigShl(a[2], pad + (IF s >= 0 THEN 0 ELSE -s))>>,
                        LAMBDA b : FlScaled(neg, b[1], b[2], e - s)))

\* the double a decimal literal n / scale denotes (n, scale small naturals)
FlFromDecimal(n, scale) == Fl(FALSE, BigFromInt(n), BigFromInt(scale), 0)

\* a / b
FlDiv(a, b) == Fl(a.neg # b.neg, a.m, b.m, a.e - b.e)

\* c * p for a Python int c (converted exactly to a double first)
FlMulInt(c, p) ==
    IF c >= 0 THEN Fl(p.neg, BigMulSmall(p.m, c), BigOne, p.e)
    ELSE Fl(~p.neg, BigMulSmall(p.m, -c), BigOne, p.e)

\* a - b
FlSub(a, b) ==
    IF b.m = <<>> THEN a
    ELSE IF a.m = <<>> THEN [b EXCEPT !.neg = ~b.neg]
    ELSE LET e  == Min(a.e, b.e)
             A  == BigShl(a.m, a.e - e)
             B  == BigShl(b.m, b.e - e)
             c  == BigCmp(A, B)
         IN  IF a.neg # b.neg THEN Fl(a.neg, BigAdd(A, B), BigOne, e)
             ELSE IF c = 0 THEN FlZero
             ELSE IF c > 0 THEN Fl(a.neg, BigSub(A, B), BigOne, e)
             ELSE Fl(~a.neg, BigSub(B, A), BigOne, e)

\* int(a): truncation toward zero
FlTrunc(a) ==
    LET mag == IF a.e >= 0 THEN BigToInt(BigShl(a.m, a.e))
               ELSE BigToInt(BigShr(a.m, -a.e))
    IN  IF a.neg THEN -mag ELSE mag

\* round(a, 1): the exact binary value is rounded to a whole number of
\* tenths, ties to even, and the decimal result is converted back to a double
PyRound1(a) ==
    IF a.m = <<>> THEN FlZero
    ELSE LET x10  == BigMulSmall(a.m, 10)
             t    == IF a.e >= 0 THEN 0 ELSE -a.e
             whole == IF a.e >= 0 THEN BigShl(x10, a.e) ELSE BigShr(x10, t)
             frac == IF a.e >= 0 THEN <<>> ELSE BigSub(x10, BigShl(whole, t))
             half == IF a.e >= 0 THEN -1
                     ELSE BigCmp(BigMulSmall(frac, 2), BigShl(BigOne, t))
             up   == half > 0 \/ (half = 0 /\ BigOdd(whole))
             k    == IF up THEN BigAdd(whole, BigOne) ELSE whole
         IN  Fl(a.neg, k, BigFromInt(10), 0)

(***************************************************************************)
(* ---------------- src/habitica.py: HabiticaAPI ------------------------- *)
(* Numbers handed to the client are decimal literals with two decimals,    *)
(* kept as a count of hundredths until float(value) converts them.         *)
(***************************************************************************)
\* largest story-point value tried, in hundredths (3.10)
MaxTarget == 310

\* largest story-point value logged through log_story_points, in hundredths
MaxLogTarget == 210

\* how far below zero the values tried go, in hundredths
MaxNegative == 2

Targets == (-MaxNegative)..MaxTarget

LogTargets == {v \in (-MaxNegative)..MaxLogTarget : v % 10 = 0 \/ v < 0}

\* the difficulties dict of break_down_difficulty, in insertion order, each
\* unit value as the double its literal denotes (2.0, 1.5, 1.0, 0.1)
difficulties ==
    << [name |-> "hard",    points |-> FlFromDecimal(20, 10)],
       [name |-> "medium",  points |-> FlFromDecimal(15, 10)],
       [name |-> "easy",    points |-> FlFromDecimal(10, 10)],
       [name |-> "trivial", points |-> FlFromDecimal(1, 10)] >>

Names == {"hard", "medium", "easy", "trivial"}

NoBreakdown == [n \in Names |-> 0]

\* outcomes of one HTTP exchange of get_profile: a 2xx body with success
\* true and the data; a RequestException, which get_profile turns into
\* {"success": False, "error": ...} (no data key); a 2xx body that carries
\* data but success false
ProfileKinds == {"ok", "error", "unsuccessful"}

\* the dict get_profile returns for each outcome: which keys it has
get_profile(kind) ==
    CASE kind = "ok"           -> [success |-> TRUE,  has_data |-> TRUE,  error |-> "none"]
      [] kind = "error"        -> [success |-> FALSE, has_data |-> FALSE, error |-> "request"]
      [] kind = "unsuccessful" -> [success |-> FALSE, has_data |-> TRUE,  error |-> "Unknown error"]

\* outcomes of the HTTP exchange of score_habit: success true in the body,
\* success false in the body, RequestException
ScoreKinds == {"ok", "api_false", "exception"}

\* the dict score_habit returns (final_result) for a task and an outcome
score_habit(task_id, direction, kind) ==
    CASE kind = "ok"        -> [success |-> TRUE,  task_id |-> task_id,
                                direction |-> direction, error |-> "none"]
      [] kind = "api_false" -> [success |-> FALSE, task_id |-> task_id,
                                direction |-> direction,
                                error |-> "API returned success=False"]
      [] kind = "exception" -> [success |-> FALSE, task_id |-> task_id,
                                direction |-> direction, error |-> "request"]

\* score_habit: the default of its parameter delay, in seconds
ScoreDelay == 4

\* get_profile: the default of its parameter delay, in seconds
ProfileDelay == 3

\* the request sent first and the delay slept after it
ScoreEventsPostFirst(task_id) ==
    <<[op |-> "post", task_id |-> task_id],
      [op |-> "sleep", seconds |-> ScoreDelay]>>

\* score_habit lines 118-122: time.sleep(delay), then requests.post
ScoreEvents(task_id) ==
    <<[op |-> "sleep", seconds |-> ScoreDelay],
      [op |-> "post", task_id |-> task_id]>>

\* get_profile lines 84-88: time.sleep(delay), then requests.get
ProfileEvents ==
    <<[op |-> "sleep", seconds |-> ProfileDelay], [op |-> "get"]>>

\* press_plus: score_habit with direction "up"
press_plus(task_id, kind) == score_habit(task_id, "up", kind)

\* press_minus: score_habit with direction "down"
press_minus(task_id, kind) == score_habit(task_id, "down", kind)

\* what the configured callback does when it is called: it returns or it
\* raises an Exception
CallbackReactions == {"returns", "raises"}

\* the callback called whatever the direction is
CallsScoreCallbackAnyDirection(cb, direction) == cb

\* score_habit line 159: self.callback and direction == "up"
CallsScoreCallback(cb, direction) == cb /\ direction = "up"

\* lines 159-161: the calls of the callback after score_habit has built
\* final_result: self.callback(final_result, task_id, direction)
CallbacksAfter(calls, cb, task_id, direction, final_result) ==
    IF CallsScoreCallback(cb, direction)
    THEN Append(calls, [result |-> final_result, task_id |-> task_id,
                        direction |-> direction])
    ELSE calls

\* lines 160-164: an Exception of the callback is caught by the except clause
\* of score_habit
SwallowedAfter(before, cb, direction, reaction) ==
    before \/ (CallsScoreCallback(cb, direction) /\ reaction = "raises")

\* f"{difficulty}-doot"
TaskId(difficulty) ==
    CASE difficulty = "hard"    -> "hard-doot"
      [] difficulty = "medium"  -> "medium-doot"
      [] difficulty = "easy"    -> "easy-doot"
      [] difficulty = "trivial" -> "trivial-doot"

VARIABLES
    hpc,          \* where the Habitica client is
    caller,       \* who called break_down_difficulty: "direct" or "log"
    value,        \* the argument (value / story_points), in hundredths
    result,       \* break_down_difficulty: the result dict
    remaining,    \* break_down_difficulty: the local remaining (a double)
    di,           \* break_down_difficulty: index of the loop over difficulties
    count,        \* break_down_difficulty: the local count
    breakdown,    \* log_story_points: the local difficulties (the breakdown)
    si,           \* log_story_points: index of the outer loop
    sj,           \* log_story_points: the inner loop variable i
    results,      \* log_story_points: the list results
    ret,          \* what log_story_points returned
    raised,       \* the exception that escaped, "none" if none
    events,       \* the sleeps and HTTP requests made so far, in order
    callback,     \* whether self.callback is set (a callback was configured)
    callbacks,    \* the calls of self.callback made so far, in order
    swallowed     \* whether an exception of the callback was caught

hvars == <<hpc, caller, value, result, remaining, di, count, breakdown,
           si, sj, results, ret, raised, events, callback, callbacks,
           swallowed>>

NoReturn == [kind |-> "none"]

VARIABLES
    mpc,             \* where monitor is
    variant,         \* "list": TrelloListMonitor, "board": TrelloBoardMonitor
    max_iterations,  \* the argument, NoLimit for None
    has_callback,    \* whether a callback was passed
    iteration,       \* the local iteration
    previous_cards,  \* the local previous_cards, the baseline
    fetched,         \* the snapshot of the last get_cards that succeeded
    round            \* what the last round did

mvars == <<mpc, variant, max_iterations, has_callback, iteration,
           previous_cards, fetched, round>>

VARIABLES
    dpc,        \* where a call of compare_cards is
    dvariant,   \* whose compare_cards: "list" or "board"
    arg_old,    \* the dict passed as old_cards, as it is now
    arg_new,    \* the dict passed as new_cards, as it is now
    order,      \* the order in which this process iterates over a set of ids
    dret        \* what compare_cards returned

dvars == <<dpc, dvariant, arg_old, arg_new, order, dret>>

VARIABLES
    stack,          \* stack_server: the module-level list stack
    spc,            \* where each request handler thread of the server is
    req,            \* the request each handler thread took last
    current_stack,  \* per handler: the copy of stack it has taken
    size,           \* per handler: the len(stack) it has read
    resp,           \* per handler: the last response it sent
    accepted,       \* the levels appended to stack so far, in order
    retrieved,      \* the levels returned by GET /stack so far, in order
    nreq            \* how many requests the server has received

svars == <<stack, spc, req, current_stack, size, resp, accepted, retrieved,
           nreq>>

VARIABLES
    ppc,          \* where play_sound is
    installed,    \* the audio players installed on the machine
    file_exists,  \* os.path.isfile(sound_file)
    pi,           \* play_sound: index of the loop over players
    tpc,          \* where the thread started by play_sound is
    thread_cmd,   \* the player command play_async runs
    played,       \* the players started for the file, in order
    sound_ret,    \* what play_sound returned
    message       \* what play_sound printed to stderr

pvars == <<ppc, installed, file_exists, pi, tpc, thread_cmd, played, sound_ret,
           message>>

HInit ==
    /\ hpc = "idle"
    /\ caller = "none"
    /\ value = 0
    /\ result = NoBreakdown
    /\ remaining = FlZero
    /\ di = 1
    /\ count = 0
    /\ breakdown = NoBreakdown
    /\ si = 1
    /\ sj = 0
    /\ results = <<>>
    /\ ret = NoReturn
    /\ raised = "none"
    /\ events = <<>>
    /\ callback = FALSE
    /\ callbacks = <<>>
    /\ swallowed = FALSE

\* a caller invokes HabiticaAPI.break_down_difficulty(v)
CallBreakDown(v) ==
    /\ hpc = "idle"
    /\ hpc' = "bd_enter"
    /\ caller' = "direct"
    /\ value' = v
    /\ UNCHANGED <<result, remaining, di, count, breakdown, si, sj, results,
                   ret, raised>>
    /\ UNCHANGED <<events, callback, callbacks, swallowed>>
    /\ UNCHANGED <<mvars, dvars, svars, pvars>>

\* a negative value taken as zero instead of refused
BdEnterClamps ==
    /\ hpc = "bd_enter"
    /\ result' = NoBreakdown
    /\ remaining' = IF value < 0 THEN FlZero ELSE FlFromDecimal(value, 100)
    /\ di' = 1
    /\ hpc' = "bd_count"
    /\ UNCHANGED <<caller, value, count, breakdown, si, sj, results, ret, raised>>
    /\ UNCHANGED <<events, callback, callbacks, swallowed>>
    /\ UNCHANGED <<mvars, dvars, svars, pvars>>

\* break_down_difficulty, lines 311-323: the argument check and the locals
BdEnter ==
    /\ hpc = "bd_enter"
    /\ IF value < 0
       THEN /\ raised' = "ValueError"
            /\ hpc' = "raised"
            /\ UNCHANGED <<result, remaining, di>>
       ELSE /\ result' = NoBreakdown
            /\ remaining' = FlFromDecimal(value, 100)
            /\ di' = 1
            /\ hpc' = "bd_count"
            /\ UNCHANGED raised
    /\ UNCHANGED <<caller, value, count, breakdown, si, sj, results, ret>>
    /\ UNCHANGED <<events, callback, callbacks, swallowed>>
    /\ UNCHANGED <<mvars, dvars, svars, pvars>>

\* lines 327-328: count = int(remaining / points); result[difficulty] = count
BdCount ==
    /\ hpc = "bd_count"
    /\ count' = FlTrunc(FlDiv(remaining, difficulties[di].points))
    /\ result' = [result EXCEPT ![difficulties[di].name] = count']
    /\ hpc' = "bd_remaining"
    /\ UNCHANGED <<caller, value, remaining, di, breakdown, si, sj, results,
                   ret, raised>>
    /\ UNCHANGED <<events, callback, callbacks, swallowed>>
    /\ UNCHANGED <<mvars, dvars, svars, pvars>>

\* line 329: remaining = round(remaining - (count * points), 1), and the
\* loop goes to the next difficulty or ends
BdRemaining ==
    /\ hpc = "bd_remaining"
    /\ remaining' = PyRound1(FlSub(remaining,
                                   FlMulInt(count, difficulties[di].points)))
    /\ di' = di + 1
    /\ hpc' = IF di = Len(difficulties) THEN "bd_return" ELSE "bd_count"
    /\ UNCHANGED <<caller, value, result, count, breakdown, si, sj, results,
                   ret, raised>>
    /\ UNCHANGED <<events, callback, callbacks, swallowed>>
    /\ UNCHANGED <<mvars, dvars, svars, pvars>>

\* the position of the loops of log_story_points after skipping the
\* difficulties that have no unit left: lines 370-372 and 376
RECURSIVE SkipDone(_, _, _)
SkipDone(bd, i, j) ==
    IF i > Len(difficulties) THEN [si |-> i, sj |-> 0]
    ELSE IF j < bd[difficulties[i].name] THEN [si |-> i, sj |-> j]
    ELSE SkipDone(bd, i + 1, 0)

\* the leftover returned along with the counts
BreakdownReturnWithRemaining(res) ==
    [kind |-> "breakdown",
     value |-> [k \in DOMAIN res \cup {"remaining"} |->
                   IF k \in DOMAIN res THEN res[k] ELSE remaining]]

\* line 331: what break_down_difficulty returns, the dict result
BreakdownReturn(res) == [kind |-> "breakdown", value |-> res]

\* line 331: return result; for log_story_points, line 364-365 take it
BdReturn ==
    /\ hpc = "bd_return"
    /\ IF caller = "direct"
       THEN /\ hpc' = "bd_done"
            /\ ret' = BreakdownReturn(result)
            /\ UNCHANGED <<breakdown, si, sj, results>>
       ELSE /\ breakdown' = result
            /\ results' = <<>>
            /\ si' = SkipDone(result, 1, 0).si
            /\ sj' = SkipDone(result, 1, 0).sj
            /\ hpc' = IF SkipDone(result, 1, 0).si > Len(difficulties)
                      THEN "profile2" ELSE "score"
            /\ UNCHANGED ret
    /\ UNCHANGED <<caller, value, result, remaining, di, count, raised>>
    /\ UNCHANGED <<events, callback, callbacks, swallowed>>
    /\ UNCHANGED <<mvars, dvars, svars, pvars>>

\* a caller invokes log_story_points(v) on a client that was constructed
\* with a callback (cb) or without one
CallLogStoryPoints(v, cb) ==
    /\ hpc = "idle"
    /\ hpc' = "profile1"
    /\ caller' = "log"
    /\ value' = v
    /\ callback' = cb
    /\ UNCHANGED <<result, remaining, di, count, breakdown, si, sj, results,
                   ret, raised>>
    /\ UNCHANGED <<events, callbacks, swallowed>>
    /\ UNCHANGED <<mvars, dvars, svars, pvars>>

\* what lines 348-354 and 389-395 do with a profile response: response['data']
\* is read before the success test
ProfileStep(response) ==
    IF ~response.has_data THEN [to |-> "raised", raised |-> "KeyError"]
    ELSE IF ~response.success THEN [to |-> "returned", raised |-> "none"]
    ELSE [to |-> "continue", raised |-> "none"]

ErrorReturn(response) ==
    [kind |-> "error", success |-> FALSE, error |-> response.error]

\* lines 348-359: the profile fetch before the scoring calls
GetProfileBefore(kind) ==
    /\ hpc = "profile1"
    /\ LET step == ProfileStep(get_profile(kind))
       IN  /\ hpc' = IF step.to = "continue" THEN "bd_enter" ELSE step.to
           /\ raised' = step.raised
           /\ ret' = IF step.to = "returned"
                     THEN ErrorReturn(get_profile(kind)) ELSE ret
    /\ UNCHANGED <<caller, value, result, remaining, di, count, breakdown,
                   si, sj, results>>
    /\ events' = events \o ProfileEvents
    /\ UNCHANGED <<callback, callbacks, swallowed>>
    /\ UNCHANGED <<mvars, dvars, svars, pvars>>

\* the loops left at the first press_plus that reports a failure
ScoreCallStopsAtFailure(kind, reaction) ==
    /\ hpc = "score"
    /\ results' = Append(results, press_plus(TaskId(difficulties[si].name), kind))
    /\ si' = SkipDone(breakdown, si, sj + 1).si
    /\ sj' = SkipDone(breakdown, si, sj + 1).sj
    /\ hpc' = IF \/ SkipDone(breakdown, si, sj + 1).si > Len(difficulties)
                 \/ kind # "ok"
              THEN "profile2" ELSE "score"
    /\ UNCHANGED <<caller, value, result, remaining, di, count, breakdown,
                   ret, raised>>
    /\ events' = events \o ScoreEvents(TaskId(difficulties[si].name))
    /\ callbacks' = CallbacksAfter(callbacks, callback,
                                   TaskId(difficulties[si].name), "up",
                                   press_plus(TaskId(difficulties[si].name), kind))
    /\ swallowed' = SwallowedAfter(swallowed, callback, "up", reaction)
    /\ UNCHANGED callback
    /\ UNCHANGED <<mvars, dvars, svars, pvars>>

\* lines 376-381: one press_plus of the inner loop, its result appended;
\* score_habit calls the callback before it returns
ScoreCall(kind, reaction) ==
    /\ hpc = "score"
    /\ results' = Append(results, press_plus(TaskId(difficulties[si].name), kind))
    /\ si' = SkipDone(breakdown, si, sj + 1).si
    /\ sj' = SkipDone(breakdown, si, sj + 1).sj
    /\ hpc' = IF SkipDone(breakdown, si, sj + 1).si > Len(difficulties)
              THEN "profile2" ELSE "score"
    /\ UNCHANGED <<caller, value, result, remaining, di, count, breakdown,
                   ret, raised>>
    /\ events' = events \o ScoreEvents(TaskId(difficulties[si].name))
    /\ callbacks' = CallbacksAfter(callbacks, callback,
                                   TaskId(difficulties[si].name), "up",
                                   press_plus(TaskId(difficulties[si].name), kind))
    /\ swallowed' = SwallowedAfter(swallowed, callback, "up", reaction)
    /\ UNCHANGED callback
    /\ UNCHANGED <<mvars, dvars, svars, pvars>>

\* a caller invokes press_plus (direction "up") or press_minus ("down") for
\* the doot of a difficulty, on a client constructed with or without a
\* callback: score_habit sleeps, posts, builds final_result, calls the
\* callback and returns final_result
Press(direction, difficulty, kind, reaction, cb) ==
    /\ hpc = "idle"
    /\ hpc' = "pressed"
    /\ caller' = IF direction = "up" THEN "press_plus" ELSE "press_minus"
    /\ callback' = cb
    /\ events' = events \o ScoreEvents(TaskId(difficulty))
    /\ callbacks' = CallbacksAfter(callbacks, cb, TaskId(difficulty), direction,
                                   score_habit(TaskId(difficulty), direction, kind))
    /\ swallowed' = SwallowedAfter(swallowed, cb, direction, reaction)
    /\ ret' = [kind |-> "score",
               value |-> IF direction = "up"
                         THEN press_plus(TaskId(difficulty), kind)
                         ELSE press_minus(TaskId(difficulty), kind)]
    /\ UNCHANGED <<value, result, remaining, di, count, breakdown, si, sj,
                   results, raised>>
    /\ UNCHANGED <<mvars, dvars, svars, pvars>>

\* every result counted, whatever its success key says
successful_scores_all(rs) == Len(rs)

\* line 383: successful_scores
successful_scores(rs) == Cardinality({k \in 1..Len(rs) : rs[k].success})

\* lines 383-415: the profile fetch after the scoring calls and the return
GetProfileAfter(kind) ==
    /\ hpc = "profile2"
    /\ LET step == ProfileStep(get_profile(kind))
       IN  /\ hpc' = IF step.to = "continue" THEN "returned" ELSE step.to
           /\ raised' = step.raised
           /\ ret' = IF step.to = "returned"
                     THEN ErrorReturn(get_profile(kind))
                     ELSE IF step.to = "continue"
                     THEN [kind |-> "full",
                           success |-> successful_scores(results) = Len(results),
                           story_points |-> value,
                           difficulty_breakdown |-> breakdown,
                           results |-> results,
                           successful_scores |-> successful_scores(results)]
                     ELSE ret
    /\ UNCHANGED <<caller, value, result, remaining, di, count, breakdown,
                   si, sj, results>>
    /\ events' = events \o ProfileEvents
    /\ UNCHANGED <<callback, callbacks, swallowed>>
    /\ UNCHANGED <<mvars, dvars, svars, pvars>>

HNext ==
    \/ \E v \in Targets : CallBreakDown(v)
    \/ BdEnter
    \/ BdCount
    \/ BdRemaining
    \/ BdReturn
    \/ \E v \in LogTargets, cb \in BOOLEAN : CallLogStoryPoints(v, cb)
    \/ \E kind \in ProfileKinds : GetProfileBefore(kind)
    \/ \E kind \in ScoreKinds, reaction \in CallbackReactions :
           ScoreCall(kind, reaction)
    \/ \E kind \in ProfileKinds : GetProfileAfter(kind)
    \/ \E direction \in {"up", "down"}, difficulty \in Names,
          kind \in ScoreKinds, reaction \in CallbackReactions,
          cb \in BOOLEAN :
           Press(direction, difficulty, kind, reaction, cb)

(***************************************************************************)
(* ---------------- src/trello.py, src/trello_board.py ------------------- *)
(* A card is a dict from field names to values; a snapshot (the result of  *)
(* get_cards) is a dict from card ids to cards.  Python lists that are     *)
(* built by iterating over a set of ids are sequences in the order the     *)
(* process visits the set.                                                 *)
(***************************************************************************)
CardIds == {"c1", "c2"}

CardNames == {"x", "y"}

\* values of dateLastActivity
MaxStamp == 2

\* idList values and the names self.lists holds for them
ListIds == {"L1", "L2"}

ListName(list_id) ==
    CASE list_id = "L1" -> "To Do"
      [] list_id = "L2" -> "Done"
      [] OTHER -> "Unknown List"

None == "None"

\* dict.get(field): None for a missing key
Get(card, field) == IF field \in DOMAIN card THEN card[field] ELSE None

\* the cards get_cards can return for one id: the list monitor asks for
\* id,name,desc,due,dateLastActivity,pos,closed; the board monitor also for
\* idList, and adds list_id and list_name (name and closed vary here, the
\* other requested fields are left out)
CardsOf(var, id) ==
    IF var = "list"
    THEN {[f \in {"id", "name", "closed", "dateLastActivity"} |->
              CASE f = "id" -> id
                [] f = "name" -> n
                [] f = "closed" -> c
                [] f = "dateLastActivity" -> t] :
          n \in CardNames, c \in BOOLEAN, t \in 1..MaxStamp}
    ELSE {[f \in {"id", "name", "closed", "dateLastActivity",
                  "idList", "list_id", "list_name"} |->
              CASE f = "id" -> id
                [] f = "name" -> n
                [] f = "closed" -> c
                [] f = "dateLastActivity" -> t
                [] f = "idList" -> l
                [] f = "list_id" -> l
                [] f = "list_name" -> ListName(l)] :
          n \in CardNames, c \in BOOLEAN, t \in 1..MaxStamp, l \in ListIds}

\* all results of get_cards: {card['id']: card for card in cards}
Snapshots(var) ==
    UNION {[ids -> UNION {CardsOf(var, id) : id \in ids}] : ids \in SUBSET CardIds}
        \cap UNION {{snap \in [ids -> UNION {CardsOf(var, id) : id \in ids}] :
                        \A id \in ids : snap[id]["id"] = id} : ids \in SUBSET CardIds}

\* the snapshots the monitored collection takes in the polling runs: one
\* open card that comes, goes, is renamed, touched and moved
OpenSnapshots(var) ==
    {snap \in Snapshots(var) :
        /\ DOMAIN snap \subseteq {"c1"}
        /\ \A id \in DOMAIN snap : ~snap[id]["closed"]}

\* the timestamp and the list id among the fields walked over
WhitelistWithOthers ==
    <<"name", "desc", "due", "pos", "closed", "dateLastActivity", "idList">>

\* the fields _get_field_changes walks over
Whitelist == <<"name", "desc", "due", "pos", "closed">>

\* _get_field_changes: the changed whitelisted fields with old and new value
get_field_changes(old_card, new_card) ==
    [field \in {Whitelist[k] : k \in {k \in 1..Len(Whitelist) :
                    Get(old_card, Whitelist[k]) # Get(new_card, Whitelist[k])}} |->
        [old |-> Get(old_card, field), new |-> Get(new_card, field)]]

\* the timestamp compared like any other field
ExcludedButTimestamp(var) ==
    IF var = "list" THEN {} ELSE {"idList", "list_id", "list_name"}

\* the board monitor leaving out what the list monitor leaves out
ExcludedAsListMonitor(var) == {"dateLastActivity"}

\* the keys compare_cards leaves out of old_relevant / new_relevant
Excluded(var) ==
    IF var = "list" THEN {"dateLastActivity"}
    ELSE {"dateLastActivity", "idList", "list_id", "list_name"}

\* {k: v for k, v in card.items() if k not in excluded}
Relevant(card, excluded) == [k \in DOMAIN card \ excluded |-> card[k]]

\* every id of the new dict taken as added
AddedIdsAllNew(old_ids, new_ids) == new_ids

\* lines 191-193: the three sets of ids
AddedIds(old_ids, new_ids) == new_ids \ old_ids

\* the difference taken the wrong way round
RemovedIdsReversed(old_ids, new_ids) == new_ids \ old_ids

RemovedIds(old_ids, new_ids) == old_ids \ new_ids

CommonIds(old_ids, new_ids) == old_ids \cap new_ids

\* a set of ids in the order a for loop or a comprehension visits it
Visit(ids) == SelectSeq(order, LAMBDA card_id : card_id \in ids)

\* trello_board.py line 190: the card changed its list
IsMoved(old_card, new_card) == old_card["idList"] # new_card["idList"]

\* a card that changed its list never taken as modified too
IsModifiedUnlessMoved(var, old_card, new_card) ==
    /\ Relevant(old_card, Excluded(var)) # Relevant(new_card, Excluded(var))
    /\ ~(var = "board" /\ Get(old_card, "idList") # Get(new_card, "idList"))

\* lines 202-205: old_relevant != new_relevant
IsModified(var, old_card, new_card) ==
    Relevant(old_card, Excluded(var)) # Relevant(new_card, Excluded(var))

\* compare_cards of TrelloListMonitor (var = "list", no moved key) and of
\* TrelloBoardMonitor (var = "board"); the lists are sequences
compare_cards(var, old_cards, new_cards) ==
    LET old_ids == DOMAIN old_cards
        new_ids == DOMAIN new_cards
        added   == Visit(AddedIds(old_ids, new_ids))
        removed == Visit(RemovedIds(old_ids, new_ids))
        common  == CommonIds(old_ids, new_ids)
        mods    == Visit({c \in common : IsModified(var, old_cards[c], new_cards[c])})
        movs    == Visit({c \in common : IsMoved(old_cards[c], new_cards[c])})
        modified ==
            [k \in 1..Len(mods) |->
                [id |-> mods[k], old |-> old_cards[mods[k]], new |-> new_cards[mods[k]],
                 changes |-> get_field_changes(old_cards[mods[k]], new_cards[mods[k]])]]
        moved ==
            [k \in 1..Len(movs) |->
                [id |-> movs[k],
                 name |-> new_cards[movs[k]]["name"],
                 from_list |-> old_cards[movs[k]]["list_name"],
                 to_list |-> new_cards[movs[k]]["list_name"],
                 old_card |-> old_cards[movs[k]],
                 new_card |-> new_cards[movs[k]]]]
    IN  IF var = "list"
        THEN [added    |-> [k \in 1..Len(added) |-> new_cards[added[k]]],
              removed  |-> [k \in 1..Len(removed) |-> old_cards[removed[k]]],
              modified |-> modified]
        ELSE [added    |-> [k \in 1..Len(added) |-> new_cards[added[k]]],
              removed  |-> [k \in 1..Len(removed) |-> old_cards[removed[k]]],
              modified |-> modified,
              moved    |-> moved]

\* any(diff.values())
has_changes(diff) == \E key \in DOMAIN diff : diff[key] # << >>

(***************************************************************************)
(* monitor: the polling loop of both monitors                              *)
(***************************************************************************)
\* largest max_iterations tried
MaxIter == 2

\* rounds followed when max_iterations is None
MaxRounds == 3

\* max_iterations = None
NoLimit == -1

\* what the reaction does when it is called: it returns, it raises a
\* requests.RequestException, or it raises another exception
Reactions == {"returns", "request_exception", "other_exception"}

NoDiff == [added |-> << >>, removed |-> << >>, modified |-> << >>]

NoRound == [fetch |-> "none", before |-> << >>, current |-> << >>,
            called |-> FALSE, arg |-> NoDiff, reaction |-> "none"]

MInit ==
    /\ mpc = "idle"
    /\ variant = "list"
    /\ max_iterations = NoLimit
    /\ has_callback = FALSE
    /\ iteration = 0
    /\ previous_cards = << >>
    /\ fetched = << >>
    /\ round = NoRound

\* monitor(callback, max_iterations) is called on a list or board monitor
CallMonitor(var, limit, cb) ==
    /\ mpc = "idle"
    /\ mpc' = "start"
    /\ variant' = var
    /\ max_iterations' = limit
    /\ has_callback' = cb
    /\ UNCHANGED <<iteration, previous_cards, fetched, round>>
    /\ UNCHANGED <<hvars, dvars, svars, pvars>>

\* the loop entered with an empty baseline after a failed initial fetch
InitialFetchGoesOn(ok, cards) ==
    /\ mpc = "start"
    /\ previous_cards' = IF ok THEN cards ELSE << >>
    /\ fetched' = IF ok THEN cards ELSE fetched
    /\ mpc' = "loop"
    /\ iteration' = 0
    /\ round' = [NoRound EXCEPT !.fetch = IF ok THEN "initial_ok"
                                          ELSE "initial_fail"]
    /\ UNCHANGED <<variant, max_iterations, has_callback>>
    /\ UNCHANGED <<hvars, dvars, svars, pvars>>

\* lines 288-297: the initial get_cards; a RequestException ends monitor
\* (round keeps how the initial fetch went until the first round)
InitialFetch(ok, cards) ==
    /\ mpc = "start"
    /\ IF ok
       THEN /\ previous_cards' = cards
            /\ fetched' = cards
            /\ mpc' = "loop"
       ELSE /\ mpc' = "returned_early"
            /\ UNCHANGED <<previous_cards, fetched>>
    /\ iteration' = 0
    /\ round' = [NoRound EXCEPT !.fetch = IF ok THEN "initial_ok"
                                          ELSE "initial_fail"]
    /\ UNCHANGED <<variant, max_iterations, has_callback>>
    /\ UNCHANGED <<hvars, dvars, svars, pvars>>

\* the while condition, line 299
LoopCondition == max_iterations = NoLimit \/ iteration < max_iterations

\* the callback called in every round that fetched, changes or not
CallsCallbackAlways(diff) == has_callback

\* lines 313-319: whether callback(diff) is called
CallsCallback(diff) == has_changes(diff) /\ has_callback

\* the assignment of line 321 moved behind the try statement
BaselineAfterUnguarded(ok, called, reaction, before, current) ==
    IF called /\ reaction = "request_exception" THEN before ELSE current

\* the value of previous_cards at the end of a round: line 321 is skipped
\* when get_cards raised, and also when the callback raised a
\* RequestException, which the except clause of line 323 catches
BaselineAfter(ok, called, reaction, before, current) ==
    IF ~ok THEN before
    ELSE IF called /\ reaction = "request_exception" THEN before
    ELSE current

\* where a round leaves monitor: an exception of the callback that is not a
\* RequestException escapes the loop and monitor
PcAfter(ok, called, reaction) ==
    IF ok /\ called /\ reaction = "other_exception" THEN "raised" ELSE "loop"

\* lines 299-325: one round of the while loop
Round(ok, cards, reaction) ==
    /\ mpc = "loop"
    /\ LoopCondition
    /\ max_iterations = NoLimit => iteration < MaxRounds
    /\ iteration' = iteration + 1
    /\ LET diff   == IF ok THEN compare_cards(variant, previous_cards, cards)
                     ELSE NoDiff
           called == ok /\ CallsCallback(diff)
       IN  /\ round' = [fetch    |-> IF ok THEN "ok" ELSE "fail",
                        before   |-> previous_cards,
                        current  |-> IF ok THEN cards ELSE << >>,
                        called   |-> called,
                        arg      |-> IF called THEN diff ELSE NoDiff,
                        reaction |-> IF called THEN reaction ELSE "none"]
           /\ previous_cards' = BaselineAfter(ok, called, reaction,
                                              previous_cards, cards)
           /\ mpc' = PcAfter(ok, called, reaction)
    /\ fetched' = IF ok THEN cards ELSE fetched
    /\ UNCHANGED <<variant, max_iterations, has_callback>>
    /\ UNCHANGED <<hvars, dvars, svars, pvars>>

\* line 299: the condition fails and monitor returns
LoopExit ==
    /\ mpc = "loop"
    /\ ~LoopCondition
    /\ mpc' = "done"
    /\ UNCHANGED <<variant, max_iterations, has_callback, iteration,
                   previous_cards, fetched, round>>
    /\ UNCHANGED <<hvars, dvars, svars, pvars>>

\* lines 327-329: Ctrl+C while the loop sleeps
KeyboardInterrupt ==
    /\ mpc = "loop"
    /\ mpc' = "stopped"
    /\ UNCHANGED <<variant, max_iterations, has_callback, iteration,
                   previous_cards, fetched, round>>
    /\ UNCHANGED <<hvars, dvars, svars, pvars>>

ListSnapshots == OpenSnapshots("list")

BoardSnapshots == OpenSnapshots("board")

\* what get_cards of the running monitor can return
Fetchable == IF variant = "list" THEN ListSnapshots ELSE BoardSnapshots

MNext ==
    \/ \E var \in {"list", "board"}, limit \in {NoLimit} \cup 0..MaxIter,
          cb \in BOOLEAN : CallMonitor(var, limit, cb)
    \/ \E cards \in Fetchable : InitialFetch(TRUE, cards)
    \/ InitialFetch(FALSE, << >>)
    \/ \E cards \in Fetchable, reaction \in Reactions :
           Round(TRUE, cards, reaction)
    \/ Round(FALSE, << >>, "returns")
    \/ LoopExit
    \/ KeyboardInterrupt

(***************************************************************************)
(* compare_cards called on its own (as get_single_diff does)               *)
(***************************************************************************)
\* the orders in which a set of card ids can be visited
Orders ==
    {o \in [1..Cardinality(CardIds) -> CardIds] :
        \A a, b \in DOMAIN o : o[a] = o[b] => a = b}

\* the snapshots compared: card c1 with every name, closed flag, timestamp
\* and list, card c2 absent or present under either name
DiffSnapshots(var) ==
    {snap \in Snapshots(var) :
        "c2" \in DOMAIN snap =>
            /\ ~snap["c2"]["closed"]
            /\ snap["c2"]["dateLastActivity"] = 1
            /\ Get(snap["c2"], "idList") \in {None, "L1"}}

ListDiffSnapshots == DiffSnapshots("list")

BoardDiffSnapshots == DiffSnapshots("board")

\* the dicts a caller can pass: results of get_cards of the same monitor,
\* and for a board monitor also dicts of one card without the list fields
DiffInputs(var) ==
    IF var = "list" THEN ListDiffSnapshots
    ELSE BoardDiffSnapshots
             \cup {snap \in ListDiffSnapshots : "c2" \notin DOMAIN snap}

DInit ==
    /\ dpc = "idle"
    /\ dvariant = "list"
    /\ arg_old = << >>
    /\ arg_new = << >>
    /\ order = CHOOSE o \in Orders : TRUE
    /\ dret = NoDiff

\* compare_cards(old, new) is called on a list or board monitor, in a
\* process that visits sets of ids in the order ord
CallCompare(var, old, new, ord) ==
    /\ dpc = "idle"
    /\ dpc' = "called"
    /\ dvariant' = var
    /\ arg_old' = old
    /\ arg_new' = new
    /\ order' = ord
    /\ UNCHANGED dret
    /\ UNCHANGED <<hvars, mvars, svars, pvars>>

\* the subscripts of trello_board.py lines 190-195 raise KeyError for a
\* common card without idList, name or list_name
CompareRaises(var, old_cards, new_cards) ==
    /\ var = "board"
    /\ \E c \in CommonIds(DOMAIN old_cards, DOMAIN new_cards) :
          \/ "idList" \notin DOMAIN old_cards[c]
          \/ "idList" \notin DOMAIN new_cards[c]
          \/ /\ IsMoved(old_cards[c], new_cards[c])
             /\ \/ "name" \notin DOMAIN new_cards[c]
                \/ "list_name" \notin DOMAIN old_cards[c]
                \/ "list_name" \notin DOMAIN new_cards[c]

\* the excluded keys deleted from the cards themselves
CardsAfterCompareStripped(var, cards) ==
    [c \in DOMAIN cards |-> Relevant(cards[c], Excluded(var))]

\* a dict of cards after compare_cards has run on it: the comprehensions of
\* lines 202-203 build new dicts and nothing is assigned into a card
CardsAfterCompare(var, cards) == cards

\* the body of compare_cards
CompareCards ==
    /\ dpc = "called"
    /\ IF CompareRaises(dvariant, arg_old, arg_new)
       THEN /\ dpc' = "raised"
            /\ UNCHANGED dret
       ELSE /\ dpc' = "returned"
            /\ dret' = compare_cards(dvariant, arg_old, arg_new)
    /\ arg_old' = CardsAfterCompare(dvariant, arg_old)
    /\ arg_new' = CardsAfterCompare(dvariant, arg_new)
    /\ UNCHANGED <<dvariant, order>>
    /\ UNCHANGED <<hvars, mvars, svars, pvars>>

DNext ==
    \/ \E var \in {"list", "board"}, ord \in Orders :
          \E old \in DiffInputs(var), new \in DiffInputs(var) :
              CallCompare(var, old, new, ord)
    \/ CompareCards

(***************************************************************************)
(* ---------------- src/stack_server.py ---------------------------------- *)
(* The Flask application keeps the list stack in the process; every        *)
(* request is served by a handler thread.  A statement that reads or       *)
(* changes stack (append, copy, clear, len) is one step of its thread.     *)
(***************************************************************************)
\* how many requests the server receives in a run
MaxRequests == 4

\* how many handler threads serve requests at the same time
MaxHandlers == 2

Handlers == 1..MaxHandlers

\* a level the list of valid levels was never meant to hold accepted too
ValidLevelsWithBoss == <<"trivial", "hard", "easy", "medium", "boss">>

\* line 11
VALID_LEVELS == <<"trivial", "hard", "easy", "medium">>

\* x in list, for a Python list
InList(x, list) == \E k \in 1..Len(list) : list[k] = x

\* what request.get_json() gives add_to_stack: has_level is false for no
\* JSON body and for a body without the key "level"
JsonBodies ==
    {[has_level |-> FALSE, level |-> None]}
        \cup {[has_level |-> TRUE, level |-> l] :
                 l \in {"easy", "hard", "boss", None}}

\* the requests sent: arg is request.args.get('level'), None without the
\* parameter and "" for an empty one
Requests ==
    {[route |-> "POST /stack", json |-> j, arg |-> None] : j \in JsonBodies}
        \cup {[route |-> "POST /stack",
                json |-> [has_level |-> TRUE, level |-> "boss"],
                arg |-> "easy"]}
        \cup {[route |-> "POST /stack",
                json |-> [has_level |-> FALSE, level |-> None],
                arg |-> a] : a \in {"", "easy", "boss"}}
        \cup {[route |-> "GET /stack",
                json |-> [has_level |-> FALSE, level |-> None],
                arg |-> a] : a \in {None, "", "easy", "boss"}}
        \cup {[route |-> "GET /stack/status",
                json |-> [has_level |-> FALSE, level |-> None],
                arg |-> None]}

NoRequest == [route |-> "none"]

NoResponse == [status |-> 0]

\* lines 17-21: the level from the JSON data first, then from the URL
PostLevel(r) == IF r.json.has_level THEN r.json.level ELSE r.arg

\* line 24
PostRejects(level) == ~InList(level, VALID_LEVELS)

\* no level given to GET /stack is ever refused
GetRejectsNothing(level) == FALSE

\* line 46: level and level not in VALID_LEVELS (None and "" are falsy)
GetRejects(level) ==
    /\ level # None
    /\ level # ""
    /\ ~InList(level, VALID_LEVELS)

\* lines 25-28 and 47-50: the 400 response
ErrorResponse(level) == [status |-> 400, received |-> level]

\* the copy taken last element first
CopyReversed(list) == [k \in 1..Len(list) |-> list[Len(list) + 1 - k]]

\* list.copy()
Copy(list) == list

SInit ==
    /\ stack = << >>
    /\ spc = [t \in Handlers |-> "idle"]
    /\ req = [t \in Handlers |-> NoRequest]
    /\ current_stack = [t \in Handlers |-> << >>]
    /\ size = [t \in Handlers |-> 0]
    /\ resp = [t \in Handlers |-> NoResponse]
    /\ accepted = << >>
    /\ retrieved = << >>
    /\ nreq = 0

\* the route of a request: the view function that serves it
ViewOf(r) ==
    CASE r.route = "POST /stack" -> "add_to_stack"
      [] r.route = "GET /stack" -> "get_and_clear_stack"
      [] r.route = "GET /stack/status" -> "get_stack_status"

\* a request arrives and handler thread t takes it
Receive(t, r) ==
    /\ spc[t] = "idle"
    /\ nreq < MaxRequests
    /\ nreq' = nreq + 1
    /\ spc' = [spc EXCEPT ![t] = ViewOf(r)]
    /\ req' = [req EXCEPT ![t] = r]
    /\ UNCHANGED <<stack, current_stack, size, resp, accepted, retrieved>>
    /\ UNCHANGED <<hvars, mvars, dvars, pvars>>

\* add_to_stack, lines 17-31: the level, its validation, stack.append(level)
AddToStack(t) ==
    /\ spc[t] = "add_to_stack"
    /\ IF PostRejects(PostLevel(req[t]))
       THEN /\ resp' = [resp EXCEPT ![t] = ErrorResponse(PostLevel(req[t]))]
            /\ spc' = [spc EXCEPT ![t] = "idle"]
            /\ UNCHANGED req
            /\ UNCHANGED <<stack, accepted>>
       ELSE /\ stack' = Append(stack, PostLevel(req[t]))
            /\ accepted' = Append(accepted, PostLevel(req[t]))
            /\ spc' = [spc EXCEPT ![t] = "add_size"]
            /\ UNCHANGED <<resp, req>>
    /\ UNCHANGED <<current_stack, size, retrieved, nreq>>
    /\ UNCHANGED <<hvars, mvars, dvars, pvars>>

\* line 35: 'stack_size': len(stack)
AddSize(t) ==
    /\ spc[t] = "add_size"
    /\ size' = [size EXCEPT ![t] = Len(stack)]
    /\ spc' = [spc EXCEPT ![t] = "add_respond"]
    /\ UNCHANGED <<stack, req, current_stack, resp, accepted, retrieved, nreq>>
    /\ UNCHANGED <<hvars, mvars, dvars, pvars>>

\* lines 36-37: 'current_stack': stack.copy(), and the 201 response
AddRespond(t) ==
    /\ spc[t] = "add_respond"
    /\ resp' = [resp EXCEPT ![t] = [status |-> 201,
                                    added |-> PostLevel(req[t]),
                                    stack_size |-> size[t],
                                    current_stack |-> Copy(stack)]]
    /\ spc' = [spc EXCEPT ![t] = "idle"]
    /\ UNCHANGED req
    /\ size' = [size EXCEPT ![t] = 0]
    /\ UNCHANGED <<stack, current_stack, accepted, retrieved, nreq>>
    /\ UNCHANGED <<hvars, mvars, dvars, pvars>>

\* get_and_clear_stack, lines 43-53: the validation of the level and
\* current_stack = stack.copy()
GetAndCopy(t) ==
    /\ spc[t] = "get_and_clear_stack"
    /\ IF GetRejects(req[t].arg)
       THEN /\ resp' = [resp EXCEPT ![t] = ErrorResponse(req[t].arg)]
            /\ spc' = [spc EXCEPT ![t] = "idle"]
            /\ UNCHANGED req
            /\ UNCHANGED current_stack
       ELSE /\ current_stack' = [current_stack EXCEPT ![t] = Copy(stack)]
            /\ spc' = [spc EXCEPT ![t] = "get_clear"]
            /\ UNCHANGED <<resp, req>>
    /\ UNCHANGED <<stack, size, accepted, retrieved, nreq>>
    /\ UNCHANGED <<hvars, mvars, dvars, pvars>>

\* lines 54-60: stack.clear() and the 200 response with the copy
GetClear(t) ==
    /\ spc[t] = "get_clear"
    /\ stack' = << >>
    /\ resp' = [resp EXCEPT ![t] = [status |-> 200,
                                    stack |-> current_stack[t],
                                    stack_size |-> Len(current_stack[t])]]
    /\ retrieved' = retrieved \o current_stack[t]
    /\ spc' = [spc EXCEPT ![t] = "idle"]
    /\ UNCHANGED req
    /\ current_stack' = [current_stack EXCEPT ![t] = << >>]
    /\ UNCHANGED <<size, accepted, nreq>>
    /\ UNCHANGED <<hvars, mvars, dvars, pvars>>

\* get_stack_status, line 66: 'current_stack': stack.copy()
StatusCopy(t) ==
    /\ spc[t] = "get_stack_status"
    /\ current_stack' = [current_stack EXCEPT ![t] = Copy(stack)]
    /\ spc' = [spc EXCEPT ![t] = "status_respond"]
    /\ UNCHANGED <<stack, req, size, resp, accepted, retrieved, nreq>>
    /\ UNCHANGED <<hvars, mvars, dvars, pvars>>

\* lines 67-68: 'stack_size': len(stack), and the 200 response
StatusRespond(t) ==
    /\ spc[t] = "status_respond"
    /\ resp' = [resp EXCEPT ![t] = [status |-> 200,
                                    current_stack |-> current_stack[t],
                                    stack_size |-> Len(stack)]]
    /\ spc' = [spc EXCEPT ![t] = "idle"]
    /\ UNCHANGED req
    /\ current_stack' = [current_stack EXCEPT ![t] = << >>]
    /\ UNCHANGED <<stack, size, accepted, retrieved, nreq>>
    /\ UNCHANGED <<hvars, mvars, dvars, pvars>>

\* every request is answered before the next one is sent: one handler
StackSequentialNext ==
    \/ \E r \in Requests : Receive(1, r)
    \/ AddToStack(1)
    \/ AddSize(1)
    \/ AddRespond(1)
    \/ GetAndCopy(1)
    \/ GetClear(1)
    \/ StatusCopy(1)
    \/ StatusRespond(1)

\* requests served by concurrent handler threads
StackNext ==
    \/ \E t \in Handlers, r \in Requests : Receive(t, r)
    \/ \E t \in Handlers : AddToStack(t)
    \/ \E t \in Handlers : AddSize(t)
    \/ \E t \in Handlers : AddRespond(t)
    \/ \E t \in Handlers : GetAndCopy(t)
    \/ \E t \in Handlers : GetClear(t)
    \/ \E t \in Handlers : StatusCopy(t)
    \/ \E t \in Handlers : StatusRespond(t)

(***************************************************************************)
(* ---------------- src/ubuntu_desktop.py: play_sound -------------------- *)
(***************************************************************************)
\* lines 52-57: the players, in order of preference
players == <<"paplay", "mpv", "ffplay", "ogg123">>

PInit ==
    /\ ppc = "idle"
    /\ installed = {}
    /\ file_exists = FALSE
    /\ pi = 1
    /\ tpc = "none"
    /\ thread_cmd = "none"
    /\ played = << >>
    /\ sound_ret = "none"
    /\ message = "none"

\* play_sound(sound_file) is called on a machine that has the players inst,
\* for a file that exists or not
CallPlaySound(inst, exists) ==
    /\ ppc = "idle"
    /\ ppc' = "check_file"
    /\ installed' = inst
    /\ file_exists' = exists
    /\ UNCHANGED <<pi, tpc, thread_cmd, played, sound_ret, message>>
    /\ UNCHANGED <<hvars, mvars, dvars, svars>>

\* lines 45-49: the file is looked up
PsCheckFile ==
    /\ ppc = "check_file"
    /\ IF file_exists
       THEN /\ ppc' = "loop"
            /\ UNCHANGED <<sound_ret, message>>
       ELSE /\ ppc' = "returned"
            /\ sound_ret' = "False"
            /\ message' = "Sound file not found"
    /\ UNCHANGED <<installed, file_exists, pi, tpc, thread_cmd, played>>
    /\ UNCHANGED <<hvars, mvars, dvars, svars>>

\* whether the statements of the try block of lines 60-72 raise
\* FileNotFoundError: they define play_async, create the thread and start
\* it, and none of them runs the player, so they do not
TryRaisesFileNotFound(player, inst) == FALSE

\* lines 59-71 and 74-78: the loop over players; an iteration starts the
\* thread of play_async, or goes on after a FileNotFoundError; after the
\* loop the message is printed and False returned
PsLoop ==
    /\ ppc = "loop"
    /\ IF pi > Len(players)
       THEN /\ ppc' = "returned"
            /\ sound_ret' = "False"
            /\ message' = "No suitable audio player found"
            /\ UNCHANGED <<pi, tpc, thread_cmd>>
       ELSE IF TryRaisesFileNotFound(players[pi], installed)
       THEN /\ pi' = pi + 1
            /\ UNCHANGED <<ppc, tpc, thread_cmd, sound_ret, message>>
       ELSE /\ tpc' = "started"
            /\ thread_cmd' = players[pi]
            /\ ppc' = "thread_started"
            /\ UNCHANGED <<pi, sound_ret, message>>
    /\ UNCHANGED <<installed, file_exists, played>>
    /\ UNCHANGED <<hvars, mvars, dvars, svars>>

\* line 72: return True, right after thread.start()
PsReturnTrue ==
    /\ ppc = "thread_started"
    /\ ppc' = "returned"
    /\ sound_ret' = "True"
    /\ UNCHANGED <<installed, file_exists, pi, tpc, thread_cmd, played, message>>
    /\ UNCHANGED <<hvars, mvars, dvars, svars>>

\* lines 62-68, in the thread: subprocess.run(player_cmd + [sound_file]); the
\* FileNotFoundError of a player that is not installed is caught and passed
PlayAsync ==
    /\ tpc = "started"
    /\ tpc' = "done"
    /\ played' = IF thread_cmd \in installed
                 THEN Append(played, thread_cmd) ELSE played
    /\ UNCHANGED <<ppc, installed, file_exists, pi, thread_cmd, sound_ret,
                   message>>
    /\ UNCHANGED <<hvars, mvars, dvars, svars>>

PNext ==
    \/ \E inst \in SUBSET {players[k] : k \in 1..Len(players)},
          exists \in BOOLEAN : CallPlaySound(inst, exists)
    \/ PsCheckFile
    \/ PsLoop
    \/ PsReturnTrue
    \/ PlayAsync

(***************************************************************************)
(* Specifications                                                          *)
(***************************************************************************)
vars == <<hvars, mvars, dvars, svars, pvars>>

Init == HInit /\ MInit /\ DInit /\ SInit /\ PInit

\* the Habitica client alone
SpecHabitica == Init /\ [][HNext]_vars

\* a monitor alone
SpecMonitor == Init /\ [][MNext]_vars

\* compare_cards alone
SpecDiff == Init /\ [][DNext]_vars

\* the stack server serving one request after the other
SpecStack == Init /\ [][StackSequentialNext]_vars

\* the stack server serving requests in concurrent handler threads
SpecStackConcurrent == Init /\ [][StackNext]_vars

\* play_sound and the thread it starts
SpecSound == Init /\ [][PNext]_vars

Next == HNext \/ MNext \/ DNext \/ StackNext \/ PNext

Spec == Init /\ [][Next]_vars

(***************************************************************************)
(* Properties of the Habitica client (SpecHabitica)                        *)
(***************************************************************************)
\* C6: log_story_points issues one scoring call per unit of every count of
\* the breakdown, in the order hard, medium, easy, trivial, each with
\* direction up, so that the calls number the sum of the counts, whatever the
\* calls return: a failed call neither ends the calls nor is issued again.
C6_OneCallPerUnitInOrder ==
    LET Repeat(x, n) == [k \in 1..n |-> x]
        expected == Repeat("hard-doot", breakdown["hard"])
                    \o Repeat("medium-doot", breakdown["medium"])
                    \o Repeat("easy-doot", breakdown["easy"])
                    \o Repeat("trivial-doot", breakdown["trivial"])
        issued == [k \in 1..Len(results) |-> results[k].task_id]
    IN  caller = "log" =>
            /\ Len(issued) <= Len(expected)
            /\ issued = SubSeq(expected, 1, Len(issued))
            /\ \A k \in 1..Len(results) : results[k].direction = "up"
            /\ hpc = "score" => Len(issued) < Len(expected)
            /\ hpc \in {"profile2", "returned", "raised"} =>
                   /\ issued = expected
                   /\ Len(results) = breakdown["hard"] + breakdown["medium"]
                                     + breakdown["easy"] + breakdown["trivial"]

\* all calls of a breakdown with two denominations were issued, the first
\* one having failed
C6_Witness ==
    /\ hpc = "profile2"
    /\ Len(results) >= 3
    /\ results[1].task_id = "medium-doot"
    /\ ~results[1].success
    /\ results[Len(results)].task_id = "trivial-doot"

C8_NoFailureIsFatal ==
    [][/\ hpc \in {"profile1", "profile2"} =>
              /\ hpc' # "raised"
              /\ hpc' = "returned" /\ ret'.kind = "error" => ~ret'.success
       /\ hpc = "score" =>
              /\ hpc' \in {"score", "profile2"}
              /\ Len(results') = Len(results) + 1]_vars

\* C9: for a target that is a multiple of 0.1, break_down_difficulty ends
\* with remainder 0: 2.0 * hard + 1.5 * medium + 1.0 * easy + 0.1 * trivial
\* is the target (all in hundredths here).
C9_RemainderZero ==
    (hpc = "bd_done" /\ value % 10 = 0) =>
        /\ remaining = FlZero
        /\ 200 * result["hard"] + 150 * result["medium"]
           + 100 * result["easy"] + 10 * result["trivial"] = value

\* C10: break_down_difficulty returns what the greedy reference gives, which
\* takes floor(remaining / unit) of hard, medium, easy, trivial in turn and
\* goes on with remaining - count * unit; stated for the targets that are
\* multiples of 0.1, counted in tenths, where rounding to one decimal leaves
\* the exact remainder as it is.
C10_GreedyReference ==
    LET tenths == value \div 10
        hard == tenths \div 20
        r1 == tenths - 20 * hard
        medium == r1 \div 15
        r2 == r1 - 15 * medium
        easy == r2 \div 10
        r3 == r2 - 10 * easy
    IN  (hpc = "bd_done" /\ value % 10 = 0) =>
            /\ result["hard"] = hard
            /\ result["medium"] = medium
            /\ result["easy"] = easy
            /\ result["trivial"] = r3

\* C11: break_down_difficulty ends with an error for every negative value
\* and computes no breakdown; log_story_points with a negative value
\* therefore issues no scoring call.
C11_NegativeTargetRaises ==
    value < 0 =>
        /\ hpc \in {"bd_enter", "profile1", "raised", "returned"}
        /\ result = NoBreakdown
        /\ breakdown = NoBreakdown
        /\ results = <<>>
        /\ caller = "direct" => hpc \in {"bd_enter", "raised"}
        /\ (caller = "direct" /\ hpc = "raised") => raised = "ValueError"
        /\ (caller = "log" /\ hpc = "returned") => ret.kind = "error"

\* log_story_points was given a negative value and break_down_difficulty
\* raised
C11_Witness ==
    /\ caller = "log"
    /\ value < 0
    /\ hpc = "raised"
    /\ raised = "ValueError"
    /\ results = <<>>

\* C12 as stated: the result of break_down_difficulty carries, besides the
\* four counts, the final leftover remainder.
C12_ResultCarriesRemainder ==
    hpc = "bd_done" =>
        \E k \in DOMAIN ret.value \ Names : ret.value[k] = remaining

\* C12 as amended: the result of break_down_difficulty is the dict of the
\* four counts, each a non-negative integer, and nothing else; the final
\* remainder is not negative and is not part of the result.
C12_ResultIsCountsOnly ==
    hpc = "bd_done" =>
        /\ ret.kind = "breakdown"
        /\ DOMAIN ret.value = {"hard", "medium", "easy", "trivial"}
        /\ \A k \in DOMAIN ret.value : ret.value[k] \in Nat
        /\ ret.value = result
        /\ ~remaining.neg

\* break_down_difficulty(0.3) returned two trivial units and left 0.1, which
\* its result does not show
C12_Witness ==
    /\ hpc = "bd_done"
    /\ value = 30
    /\ remaining # FlZero
    /\ ret.value["trivial"] = 2

\* C20: in every scoring call of log_story_points the delay comes before the
\* request: each POST is preceded by the sleep of its score_habit, so that a
\* full delay lies between any two consecutive requests of one run, and
\* there is one POST per result.
C20_DelayBeforeRequest ==
    caller = "log" =>
        /\ \A k \in 1..Len(events) :
               events[k].op = "post" =>
                   /\ k > 1
                   /\ events[k - 1].op = "sleep"
                   /\ events[k - 1].seconds = 4
        /\ \A k \in 1..Len(events) :
               events[k].op \in {"post", "get"} =>
                   k > 1 /\ events[k - 1].op = "sleep"
        /\ Cardinality({k \in 1..Len(events) : events[k].op = "post"}) = Len(results)
        /\ \A j \in 1..Len(results) :
               \E k \in 1..Len(events) :
                   /\ events[k].op = "post"
                   /\ events[k].task_id = results[j].task_id
                   /\ Cardinality({i \in 1..k : events[i].op = "post"}) = j

\* three scoring calls were made, each after its sleep
C20_Witness ==
    /\ hpc = "profile2"
    /\ Len(results) = 3
    /\ Len(events) = 8
    /\ events[7].op = "sleep"
    /\ events[8].op = "post"

\* C30: for every target that is not negative, given in hundredths, the
\* value the breakdown scores, 2.0 * hard + 1.5 * medium + 1.0 * easy +
\* 0.1 * trivial, is not greater than the target, and medium <= 1, easy <= 1,
\* medium and easy are not both 1, and trivial <= 9 (values in hundredths).
C30_ScoredNeverAboveTarget ==
    (hpc = "bd_done" /\ value >= 0) =>
        /\ 200 * ret.value["hard"] + 150 * ret.value["medium"]
             + 100 * ret.value["easy"] + 10 * ret.value["trivial"] <= value
        /\ ret.value["medium"] <= 1
        /\ ret.value["easy"] <= 1
        /\ ~(ret.value["medium"] = 1 /\ ret.value["easy"] = 1)
        /\ ret.value["trivial"] <= 9

\* C21: with a callback configured, every press_plus is followed by exactly
\* one call of the callback, with (result, task_id, direction) of that
\* press_plus, whether the scoring succeeded or not; press_minus never calls
\* it, and no call is made without a callback; an exception the callback
\* raises is swallowed and press_plus still returns the scoring result.
C21_CallbackOncePerPressPlus ==
    /\ hpc = "pressed" =>
         /\ raised = "none"
         /\ ret.kind = "score"
         /\ ret.value.direction = (IF caller = "press_plus" THEN "up" ELSE "down")
         /\ callbacks = IF callback /\ caller = "press_plus"
                        THEN <<[result |-> ret.value,
                                task_id |-> ret.value.task_id,
                                direction |-> "up"]>>
                        ELSE << >>
    /\ caller = "log" =>
         /\ Len(callbacks) = IF callback THEN Len(results) ELSE 0
         /\ \A k \in 1..Len(callbacks) :
                callbacks[k] = [result |-> results[k],
                                task_id |-> results[k].task_id,
                                direction |-> "up"]
         /\ raised \in {"none", "ValueError", "KeyError"}

\* press_plus returned the result of a failed scoring after its callback
\* was called and raised
C21_Witness ==
    /\ hpc = "pressed"
    /\ caller = "press_plus"
    /\ callback
    /\ swallowed
    /\ Len(callbacks) = 1
    /\ ~ret.value.success

(***************************************************************************)
(* Properties of the polling loop (SpecMonitor)                            *)
(***************************************************************************)
\* a step that is one round of the while loop
RoundStep == iteration' = iteration + 1

\* C1: a round whose fetch fails changes nothing: the baseline stays what it
\* was, the callback is not called in the round, and the loop goes on to the
\* next round.
C1_FailedFetchChangesNothing ==
    [][(RoundStep /\ round'.fetch = "fail") =>
           /\ previous_cards' = previous_cards
           /\ ~round'.called
           /\ mpc' = "loop"]_vars

\* a failed round with a callback and a card in the baseline has run
C1_Witness ==
    /\ mpc = "loop"
    /\ round.fetch = "fail"
    /\ has_callback
    /\ DOMAIN previous_cards # {}
    /\ iteration = 2

\* C2: in a round whose fetch succeeds the callback that was passed is called
\* if and only if some list of the diff between the baseline and the fetched
\* snapshot is non-empty, and it is called with exactly that diff.
C2_CallbackIffChanges ==
    [][(RoundStep /\ round'.fetch = "ok" /\ has_callback) =>
           LET diff == compare_cards(variant, previous_cards, round'.current)
           IN  /\ round'.called <=>
                      (\E key \in {"added", "removed", "modified", "moved"} \cap
                                  DOMAIN diff : Len(diff[key]) > 0)
               /\ round'.called => round'.arg = diff]_vars

\* the callback of a board monitor was called with a diff that has a moved
\* card
C2_Witness ==
    /\ variant = "board"
    /\ round.fetch = "ok"
    /\ round.called
    /\ Len(round.arg.moved) = 1

\* C3: after every round whose fetch succeeded the baseline of the next round
\* is the snapshot fetched in the round, whatever the diff was and whatever
\* the callback did.
C3_BaselineIsFetched ==
    [][(RoundStep /\ round'.fetch = "ok") =>
           previous_cards' = round'.current]_vars

\* C4: a change between two fetched snapshots is delivered in at most one
\* round: a round that fetches the snapshot the last successful fetch
\* returned, the collection not having changed again, calls no callback,
\* whatever the fetches and the callback did before.
C4_NoRedelivery ==
    [][(RoundStep /\ round'.fetch = "ok" /\ round'.current = fetched) =>
           ~round'.called]_vars

\* C5: with max_iterations = N and the initial fetch done, monitor leaves
\* its loop, other than by a keyboard interrupt, only after N rounds; with
\* max_iterations = None it does not leave the loop on its own.
C5_ExactlyNRounds ==
    (mpc \in {"done", "raised"}) =>
        /\ max_iterations # NoLimit
        /\ iteration = max_iterations

\* C27: no change is lost across failed rounds: the first round whose fetch
\* succeeds after a round whose fetch failed diffs against the snapshot of
\* the last fetch that succeeded, and a callback that was passed is called
\* with the diff between that snapshot and the fetched one unless the two
\* show no change.
C27_OutageDiffsAgainstLastFetched ==
    [][(RoundStep /\ round.fetch = "fail" /\ round'.fetch = "ok") =>
           LET diff == compare_cards(variant, fetched, round'.current)
           IN  /\ round'.before = fetched
               /\ (has_callback /\ has_changes(diff)) =>
                      /\ round'.called
                      /\ round'.arg = diff]_vars

\* C28: when the initial fetch of monitor fails, monitor returns at once,
\* whatever max_iterations is: no round is run, nothing is fetched again,
\* the callback is not called, and monitor takes no further step.
C28_InitialFetchFailureReturns ==
    [][/\ round'.fetch = "initial_fail" =>
              /\ mpc' = "returned_early"
              /\ iteration' = 0
              /\ previous_cards' = << >>
              /\ fetched' = << >>
              /\ ~round'.called
       /\ round.fetch # "initial_fail"]_vars

\* monitor was called with a callback and max_iterations = 2 and returned
\* after its initial fetch had failed
C28_Witness ==
    /\ mpc = "returned_early"
    /\ round.fetch = "initial_fail"
    /\ has_callback
    /\ max_iterations = 2
    /\ iteration = 0

(***************************************************************************)
(* Properties of compare_cards (SpecDiff)                                  *)
(***************************************************************************)
\* C13: the added list holds exactly the cards of the new dict whose id is
\* not a key of the old dict, each once; when the two dicts share no id it
\* holds all cards of the new dict.
C13_AddedExactlyNewIds ==
    dpc = "returned" =>
        LET ids == {c \in DOMAIN arg_new : c \notin DOMAIN arg_old}
        IN  /\ \A c \in ids :
                   Cardinality({k \in 1..Len(dret.added) :
                                   dret.added[k] = arg_new[c]}) = 1
            /\ \A k \in 1..Len(dret.added) :
                   \E c \in ids : dret.added[k] = arg_new[c]
            /\ DOMAIN arg_old \cap DOMAIN arg_new = {} =>
                   Len(dret.added) = Cardinality(DOMAIN arg_new)

\* a board comparison of {c1} with {c1, c2} returned c2 as added
C13_Witness ==
    /\ dpc = "returned"
    /\ dvariant = "board"
    /\ DOMAIN arg_old = {"c1"}
    /\ DOMAIN arg_new = {"c1", "c2"}
    /\ dret.added = <<arg_new["c2"]>>

\* C14: the removed list holds exactly the cards of the old dict whose id is
\* not a key of the new dict, each once; when the two dicts share no id it
\* holds all cards of the old dict.
C14_RemovedExactlyOldIds ==
    dpc = "returned" =>
        LET ids == {c \in DOMAIN arg_old : c \notin DOMAIN arg_new}
        IN  /\ \A c \in ids :
                   Cardinality({k \in 1..Len(dret.removed) :
                                   dret.removed[k] = arg_old[c]}) = 1
            /\ \A k \in 1..Len(dret.removed) :
                   \E c \in ids : dret.removed[k] = arg_old[c]
            /\ DOMAIN arg_old \cap DOMAIN arg_new = {} =>
                   Len(dret.removed) = Cardinality(DOMAIN arg_old)

\* a list comparison of {c1} with {c2}, which share no id, returned c1 as
\* removed
C14_Witness ==
    /\ dpc = "returned"
    /\ dvariant = "list"
    /\ DOMAIN arg_old = {"c1"}
    /\ DOMAIN arg_new = {"c2"}
    /\ dret.removed = <<arg_old["c1"]>>
    /\ dret.added = <<arg_new["c2"]>>

\* C15: for every id in both dicts there is a modified entry, with the id,
\* the old card, the new card and a change map, if and only if the cards
\* differ in a field other than dateLastActivity (for a board monitor also
\* other than idList, list_id, list_name); there is at most one entry per id
\* and none for other ids.
C15_ModifiedIffRelevantFieldDiffers ==
    dpc = "returned" =>
        LET left == IF dvariant = "list" THEN {"dateLastActivity"}
                    ELSE {"dateLastActivity", "idList", "list_id", "list_name"}
            Differ(c) == \E f \in (DOMAIN arg_old[c] \cup DOMAIN arg_new[c]) \ left :
                            \/ f \notin DOMAIN arg_old[c]
                            \/ f \notin DOMAIN arg_new[c]
                            \/ arg_old[c][f] # arg_new[c][f]
            Entries(c) == {k \in 1..Len(dret.modified) : dret.modified[k].id = c}
        IN  /\ \A c \in DOMAIN arg_old \cap DOMAIN arg_new :
                   /\ Cardinality(Entries(c)) = IF Differ(c) THEN 1 ELSE 0
                   /\ \A k \in Entries(c) :
                          /\ DOMAIN dret.modified[k] = {"id", "old", "new", "changes"}
                          /\ dret.modified[k].old = arg_old[c]
                          /\ dret.modified[k].new = arg_new[c]
            /\ \A k \in 1..Len(dret.modified) :
                   dret.modified[k].id \in DOMAIN arg_old \cap DOMAIN arg_new

\* card c1 differs only in its timestamp and card c2 in its name: the only
\* modified entry is the one of c2
C15_Witness ==
    /\ dpc = "returned"
    /\ DOMAIN arg_old = {"c1", "c2"}
    /\ DOMAIN arg_new = {"c1", "c2"}
    /\ arg_old["c1"]["dateLastActivity"] # arg_new["c1"]["dateLastActivity"]
    /\ Len(dret.modified) = 1
    /\ dret.modified[1].id = "c2"

\* C16: in a board monitor there is a moved entry for an id if and only if
\* the id is in both dicts and its idList differs, and then exactly one; a
\* card whose idList differs and whose name, desc, due, pos and closed are
\* equal has no modified entry.
C16_MovedIffListDiffers ==
    (dpc = "returned" /\ dvariant = "board") =>
        LET Moves(c) == {k \in 1..Len(dret.moved) : dret.moved[k].id = c}
            Mods(c) == {k \in 1..Len(dret.modified) : dret.modified[k].id = c}
            SameListed(c) == \A f \in {"name", "desc", "due", "pos", "closed"} :
                                 Get(arg_old[c], f) = Get(arg_new[c], f)
        IN  /\ \A c \in DOMAIN arg_old \cap DOMAIN arg_new :
                   /\ Cardinality(Moves(c)) =
                          IF arg_old[c]["idList"] # arg_new[c]["idList"] THEN 1 ELSE 0
                   /\ (arg_old[c]["idList"] # arg_new[c]["idList"] /\ SameListed(c))
                          => Mods(c) = {}
            /\ \A k \in 1..Len(dret.moved) :
                   dret.moved[k].id \in DOMAIN arg_old \cap DOMAIN arg_new

\* card c1 changed its list and its timestamp and nothing else: one moved
\* entry, no modified entry
C16_Witness ==
    /\ dpc = "returned"
    /\ dvariant = "board"
    /\ Len(dret.moved) = 1
    /\ dret.moved[1].id = "c1"
    /\ dret.moved[1].from_list = "To Do"
    /\ dret.moved[1].to_list = "Done"
    /\ dret.modified = << >>
    /\ arg_old["c1"]["dateLastActivity"] # arg_new["c1"]["dateLastActivity"]

\* C17: compare_cards of a dict with itself has only empty lists, so a
\* round of monitor that fetches the snapshot the last successful fetch
\* returned calls no callback.
C17_SameSnapshotNoReaction ==
    [][(RoundStep /\ round'.fetch = "ok") =>
           LET same == compare_cards(variant, round'.current, round'.current)
           IN  /\ \A key \in DOMAIN same : same[key] = << >>
               /\ {"added", "removed", "modified"} \subseteq DOMAIN same
               /\ variant = "board" => "moved" \in DOMAIN same
               /\ round'.current = fetched => ~round'.called]_vars

\* C18: the change map of every modified entry has as keys exactly those of
\* name, desc, due, pos, closed whose value differs between the old and the
\* new card, each with its old and its new value, and no other key.
C18_ChangesAreWhitelistedDifferences ==
    dpc = "returned" =>
        \A k \in 1..Len(dret.modified) :
            LET entry == dret.modified[k]
            IN  /\ DOMAIN entry.changes =
                       {f \in {"name", "desc", "due", "pos", "closed"} :
                           Get(entry.old, f) # Get(entry.new, f)}
                /\ \A f \in DOMAIN entry.changes :
                       entry.changes[f] = [old |-> Get(entry.old, f),
                                           new |-> Get(entry.new, f)]

\* a card of a board was renamed, closed, touched and moved: its change
\* map has the keys name and closed
C18_Witness ==
    /\ dpc = "returned"
    /\ dvariant = "board"
    /\ Len(dret.modified) = 1
    /\ DOMAIN dret.modified[1].changes = {"name", "closed"}
    /\ dret.modified[1].old["dateLastActivity"] # dret.modified[1].new["dateLastActivity"]
    /\ dret.modified[1].old["idList"] # dret.modified[1].new["idList"]

\* C19: compare_cards is pure and total: it leaves the old and the new dict
\* as they were, and for two results of get_cards of its monitor, empty ones
\* included, it returns a diff with its three (board: four) lists and does
\* not raise.
C19_PureAndTotal ==
    [][dpc = "called" =>
          LET WellFormed(cards) ==
                  \A c \in DOMAIN cards :
                      /\ {"id", "name", "closed", "dateLastActivity"}
                             \subseteq DOMAIN cards[c]
                      /\ cards[c]["id"] = c
                      /\ dvariant = "board" =>
                             {"idList", "list_id", "list_name"} \subseteq DOMAIN cards[c]
          IN  /\ arg_old' = arg_old
              /\ arg_new' = arg_new
              /\ (WellFormed(arg_old) /\ WellFormed(arg_new)) =>
                     /\ dpc' = "returned"
                     /\ DOMAIN dret' = IF dvariant = "list"
                                       THEN {"added", "removed", "modified"}
                                       ELSE {"added", "removed", "modified", "moved"}]_vars

\* a board comparison of the empty dict with two cards has returned
C19_Witness ==
    /\ dpc = "returned"
    /\ dvariant = "board"
    /\ arg_old = << >>
    /\ DOMAIN arg_new = {"c1", "c2"}
    /\ Len(dret.added) = 2

\* C24: in a board monitor the moved test and the modified test do not
\* exclude each other: a card that is in both dicts, whose idList differs
\* and one of whose fields name, desc, due, pos, closed differs too, has
\* exactly one moved entry and exactly one modified entry in the same diff.
C24_MovedAndModifiedTogether ==
    (dpc = "returned" /\ dvariant = "board") =>
        \A c \in DOMAIN arg_old \cap DOMAIN arg_new :
            ( /\ arg_old[c]["idList"] # arg_new[c]["idList"]
              /\ \E f \in {"name", "desc", "due", "pos", "closed"} :
                     Get(arg_old[c], f) # Get(arg_new[c], f) )
                => /\ Cardinality({k \in 1..Len(dret.moved) :
                                      dret.moved[k].id = c}) = 1
                   /\ Cardinality({k \in 1..Len(dret.modified) :
                                      dret.modified[k].id = c}) = 1

\* card c1 was renamed and changed its list: it is the moved entry and the
\* modified entry of the diff
C24_Witness ==
    /\ dpc = "returned"
    /\ dvariant = "board"
    /\ Len(dret.moved) = 1
    /\ Len(dret.modified) = 1
    /\ dret.moved[1].id = "c1"
    /\ dret.modified[1].id = "c1"
    /\ DOMAIN dret.modified[1].changes = {"name"}
    /\ dret.moved[1].from_list # dret.moved[1].to_list

(***************************************************************************)
(* Properties of the stack server (SpecStack, SpecStackConcurrent)         *)
(***************************************************************************)
\* the levels accepted and not yet returned by a GET /stack
Outstanding == SubSeq(accepted, Len(retrieved) + 1, Len(accepted))

\* a step in which handler t sends its response
Responds(t) == spc[t] # "idle" /\ spc'[t] = "idle"

\* C22: with requests served one after the other, a GET /stack without an
\* invalid level returns exactly the levels accepted since the previous
\* retrieval, in the order they were received, and leaves the stack empty;
\* a GET /stack/status that follows it reports an empty stack.
C22_GetReturnsAcceptedInOrder ==
    [][\A t \in Handlers :
          /\ ( /\ Responds(t)
               /\ req[t].route = "GET /stack"
               /\ req[t].arg \in {None, "", "trivial", "hard", "easy", "medium"} )
                 => /\ resp'[t].status = 200
                    /\ resp'[t].stack = Outstanding
                    /\ resp'[t].stack_size = Len(Outstanding)
                    /\ retrieved' = accepted
                    /\ stack' = << >>
          /\ ( /\ Responds(t)
               /\ req[t].route = "GET /stack/status"
               /\ resp[t].status = 200
               /\ "stack" \in DOMAIN resp[t] )
                 => /\ resp'[t].status = 200
                    /\ resp'[t].current_stack = << >>
                    /\ resp'[t].stack_size = 0]_vars

\* two levels were posted, a GET /stack returned them in the order of their
\* arrival and the status asked for next showed the empty stack
C22_Witness ==
    /\ spc[1] = "idle"
    /\ req[1].route = "GET /stack/status"
    /\ resp[1].current_stack = << >>
    /\ accepted = <<"hard", "easy">>
    /\ retrieved = <<"hard", "easy">>

\* C23: a POST /stack whose level is not trivial, hard, easy or medium, or
\* that has no level, is answered 400 and leaves the stack as it was; one
\* with a valid level appends the level at the end of the stack and is
\* answered 201; every element of the stack is a valid level at all times.
C23_PostValidatesLevel ==
    [][\A t \in Handlers :
          /\ spc[t] = "add_to_stack" /\ spc'[t] # spc[t] =>
                IF PostLevel(req[t]) \in {"trivial", "hard", "easy", "medium"}
                THEN stack' = Append(stack, PostLevel(req[t]))
                ELSE /\ stack' = stack
                     /\ Responds(t)
                     /\ resp'[t].status = 400
          /\ spc[t] \in {"add_size", "add_respond"} /\ spc'[t] # spc[t] =>
                /\ stack' = stack
                /\ Responds(t) => resp'[t].status = 201
          /\ \A k \in 1..Len(stack') :
                stack'[k] \in {"trivial", "hard", "easy", "medium"}]_vars

\* after two accepted levels a POST with the level boss was refused
C23_Witness ==
    /\ spc[1] = "idle"
    /\ req[1].route = "POST /stack"
    /\ PostLevel(req[1]) = "boss"
    /\ resp[1].status = 400
    /\ stack = <<"easy", "hard">>

\* C26: with POST /stack and GET /stack served concurrently no accepted
\* level is lost or duplicated: once every request is answered, the levels
\* accepted are those still in the stack together with those the GET /stack
\* responses returned, each as often as it was accepted.
C26_NoItemLostOrDuplicated ==
    (\A t \in Handlers : spc[t] = "idle") =>
        \A l \in {"trivial", "hard", "easy", "medium"} :
            Cardinality({k \in 1..Len(accepted) : accepted[k] = l})
                = Cardinality({k \in 1..Len(stack) : stack[k] = l})
                    + Cardinality({k \in 1..Len(retrieved) : retrieved[k] = l})

C25_FirstInstalledPlayerPlays ==
    (ppc = "returned" /\ file_exists /\ tpc # "started") =>
        LET found == {k \in 1..Len(players) : players[k] \in installed}
        IN  /\ found # {} =>
                   played = <<players[CHOOSE k \in found : \A j \in found : k <= j]>>
            /\ sound_ret = "True" => played # << >>
            /\ found = {} =>
                   /\ sound_ret = "False"
                   /\ message = "No suitable audio player found"

====
